---------------------------- MODULE Spec2Model ----------------------------
(***************************************************************************)
(* A model of peppy (src/peppy/__main__.py, src/peppy/utils.py): the pep8  *)
(* example finder and its shrinker.                                        *)
(*                                                                         *)
(* A text is a sequence of one-character strings.  The Python parser and   *)
(* the pep8 program are external to the repository: a "world" fixes, for   *)
(* one run, which texts compile and what the checker prints for a text.    *)
(* md5 is taken to be collision free: a digest is modelled by a tagged     *)
(* copy of the text it digests.                                            *)
(***************************************************************************)
EXTENDS Integers, Sequences, FiniteSets, TLC

NL == "\n"

Alphabet == {"a", "b", NL}

\* Length of the longest source file of the corpus.
MaxLen == 3

\* Largest value of --max-size tried.
MaxFloor == 2

\* Largest number of lines the checker prints in the pep8() specification.
MaxOutLines == 2

\* character_based_shrinking: range(10, 0, -1)
MaxWindow == 10

Cats == {"E1", "W2"}

---------------------------------------------------------------------------
(* Texts                                                                   *)

RECURSIVE TextsOfLen(_, _)
TextsOfLen(chars, n) ==
    IF n = 0 THEN {<<>>}
    ELSE {Append(t, c) : t \in TextsOfLen(chars, n - 1), c \in chars}

TextsUpTo(chars, n) == UNION {TextsOfLen(chars, k) : k \in 0..n}

\* The source files a run may meet: every text of at most MaxLen characters
\* over "a" and the line break.
Corpus == TextsUpTo({"a", NL}, MaxLen)

RECURSIVE Rep(_, _)
Rep(c, n) == IF n = 0 THEN <<>> ELSE <<c>> \o Rep(c, n - 1)

\* A line too long for one character window to delete together with its
\* line break.
LongLine == Rep("a", MaxWindow)

\* s.split('\n')
RECURSIVE Split(_)
Split(s) ==
    IF \E i \in 1..Len(s) : s[i] = NL
    THEN LET i == CHOOSE k \in 1..Len(s) :
                      s[k] = NL /\ \A j \in 1..(k - 1) : s[j] # NL
         IN  <<SubSeq(s, 1, i - 1)>> \o Split(SubSeq(s, i + 1, Len(s)))
    ELSE <<s>>

\* '\n'.join(lines)
RECURSIVE Join(_)
Join(lines) ==
    IF Len(lines) = 0 THEN <<>>
    ELSE IF Len(lines) = 1 THEN lines[1]
    ELSE lines[1] \o <<NL>> \o Join(Tail(lines))

\* x = list(s); del x[i:(i + n)]   (i counted from 0, as in the source)
DelSlice(x, i, n) == SubSeq(x, 1, i) \o SubSeq(x, i + n + 1, Len(x))

\* The three loops of line_based_shrinking, in the order they yield.
LinePrefixes(lines) ==
    [k \in 1..(IF Len(lines) >= 2 THEN Len(lines) - 2 ELSE 0) |->
        Join(SubSeq(lines, 1, k))]

LineSuffixes(lines) ==
    [k \in 1..(Len(lines) - 1) |->
        Join(SubSeq(lines, (Len(lines) - k) + 1, Len(lines)))]

LineDeletions(lines) ==
    LET n == Len(lines)
    IN  [k \in 1..((n \div 2) * n) |->
            Join(DelSlice(lines, (k - 1) % n, (n \div 2) - ((k - 1) \div n)))]

line_based_shrinking(s) ==
    LET lines == Split(s)
    IN  LinePrefixes(lines) \o LineSuffixes(lines) \o LineDeletions(lines)

character_based_shrinking(s) ==
    LET n == Len(s)
    IN  [k \in 1..(MaxWindow * n) |->
            DelSlice(s, (k - 1) % n, MaxWindow - ((k - 1) \div n))]

\* for shrinker in (line_based_shrinking, character_based_shrinking)
Shrinkers == <<"line_based_shrinking", "character_based_shrinking">>

Shrink(name, s) ==
    IF name = "line_based_shrinking" THEN line_based_shrinking(s)
    ELSE character_based_shrinking(s)

---------------------------------------------------------------------------
(* The environment: the Python parser and the pep8 program                 *)

Has(pat)  == [kind |-> "has",   pat |-> pat]
Line(pat) == [kind |-> "line",  pat |-> pat]
NoEol     == [kind |-> "noeol", pat |-> <<>>]

IsSubstring(pat, s) ==
    \E i \in 0..(Len(s) - Len(pat)) : SubSeq(s, i + 1, i + Len(pat)) = pat

Matches(p, s) ==
    CASE p.kind = "has"   -> IsSubstring(p.pat, s)
      [] p.kind = "line"  -> \E i \in 1..Len(Split(s)) : Split(s)[i] = p.pat
      [] p.kind = "noeol" -> IF Len(s) = 0 THEN FALSE ELSE s[Len(s)] # NL

\* One world per grammar and checker the run may be set against.  "quotes":
\* a is a quote character, which must be closed.  "indent": the text may not
\* open with a line break.  "keyword": every line must be one of three
\* statements.
Worlds ==
    { [name |-> "plain", valid |-> "any",
       trig |-> [c \in Cats |-> IF c = "E1" THEN {Has(<<"a">>)} ELSE {NoEol}]],
      [name |-> "blank", valid |-> "any",
       trig |-> [c \in Cats |-> IF c = "E1" THEN {Has(<<"a", "a">>), Has(<<NL>>)}
                                 ELSE {Has(<<NL, NL>>)}]],
      [name |-> "quotes", valid |-> "quotes",
       trig |-> [c \in Cats |-> IF c = "E1" THEN {Has(<<"a">>)}
                                 ELSE {Has(<<NL>>)}]],
      [name |-> "indent", valid |-> "indent",
       trig |-> [c \in Cats |-> IF c = "E1" THEN {Has(<<NL, "a">>)}
                                 ELSE {Has(<<>>)}]],
      [name |-> "keyword", valid |-> "keyword",
       trig |-> [c \in Cats |-> IF c = "E1" THEN {Line(<<"b">>), Has(<<NL, "a">>)}
                                 ELSE {}]] }

Count(c, s) == Cardinality({i \in 1..Len(s) : s[i] = c})

KeywordLines == {LongLine, <<"a", "b">>, <<"b">>}

\* compile(s, "<string>", "exec") in world w
Compiles(w, s) ==
    CASE w.valid = "any"     -> TRUE
      [] w.valid = "quotes"  -> Count("a", s) % 2 = 0
      [] w.valid = "indent"  -> IF Len(s) = 0 THEN TRUE ELSE s[1] # NL
      [] w.valid = "keyword" -> \A i \in 1..Len(Split(s)) : Split(s)[i] \in KeywordLines

is_valid_source_any(w, s) == TRUE

is_valid_source(w, s) == Compiles(w, s)

\* The categories the checker of world w finds in s.
Triggered(w, s) == {c \in Cats : \E p \in w.trig[c] : Matches(p, s)}

\* A printed line is a sequence of elements: a blank character (" " or a
\* tab) or a maximal run of non-blank characters.
IsSpace(e) == e \in {" ", "\t"}

DiagLine(c) == <<"f.py:1:1:", " ", c, " ", "message">>

\* pep8 prints its findings sorted by position; here E1 comes first.
DiagLines(cats) ==
    (IF "E1" \in cats THEN <<DiagLine("E1")>> ELSE <<>>)
        \o (IF "W2" \in cats THEN <<DiagLine("W2")>> ELSE <<>>)

\* subprocess.check_output(['pep8', filepath]): the exit status and the
\* output, already split at its line breaks (the output ends with one).
RunPep8(w, s) ==
    LET cats == Triggered(w, s)
    IN  IF cats = {} THEN [rc |-> 0, out |-> <<<<>>>>]
        ELSE [rc |-> 1, out |-> DiagLines(cats) \o <<<<>>>>]

---------------------------------------------------------------------------
(* pep8(): scraping the checker's output                                   *)

\* l.strip()
RECURSIVE LStrip(_)
LStrip(l) == IF Len(l) > 0 /\ IsSpace(l[1]) THEN LStrip(Tail(l)) ELSE l

RECURSIVE RStrip(_)
RStrip(l) ==
    IF Len(l) > 0 /\ IsSpace(l[Len(l)]) THEN RStrip(SubSeq(l, 1, Len(l) - 1)) ELSE l

Strip(l) == RStrip(LStrip(l))

\* ERROR_CODE.match(l) is not None, for ERROR_CODE = '^[^\s]+ ([^\s]+) '
ErrorCodeMatches(l) ==
    /\ Len(l) >= 4
    /\ ~IsSpace(l[1])
    /\ l[2] = " "
    /\ ~IsSpace(l[3])
    /\ l[4] = " "

\* match.groups()[0]
ErrorCodeGroup(l) == l[3]

\* pep8(filepath), given what the subprocess did: the set returned, or
\* raised when the assertion on a line fails.
pep8(run) ==
    IF run.rc = 0 THEN [raised |-> FALSE, result |-> {}]
    ELSE LET lines == {Strip(run.out[i]) : i \in 1..Len(run.out)} \ {<<>>}
         IN  IF \A l \in lines : ErrorCodeMatches(l)
             THEN [raised |-> FALSE, result |-> {ErrorCodeGroup(l) : l \in lines}]
             ELSE [raised |-> TRUE, result |-> {}]

---------------------------------------------------------------------------
(* The Peppy object, the two directories, and the run                      *)

VARIABLES
    world,          \* the parser and the checker of this run
    max_size,       \* self.max_size
    errors_cache,   \* self.errors_cache: digest -> set of categories
    best_examples,  \* self.best_examples: category -> text
    recycling,      \* the recycling directory: path -> content
    examples,       \* the examples directory: path -> content
    pending,        \* run(): the files not yet investigated
    pc,             \* where the run is
    changed,        \* investigate_pep8_status: changed
    items,          \* ... the (error, source) pairs the for loop has left
    error,          \* ... the loop's error
    source,         \* the text being minimized
    current_best,   \* find_minimal_example_from_source: current_best
    seen,           \* ... seen
    shrinker,       \* ... index of the shrinker in Shrinkers
    simplified,     \* ... simplified
    example,        \* the text find_minimal_example_from_source returned
    invoked,        \* history: how often pep8 ran on each text
    hits,           \* history: the texts errors_in_source found in its cache
    answers,        \* history: the sets errors_in_source returned for each text
    overwrites,     \* history: <<path, old, new>> of each example file rewritten
    prior,          \* history: the examples directory as the run found it
    before,         \* history: both directories when the last file was opened
    validated,      \* history: is_valid_source calls of this minimize call
    judged,         \* history: is_example calls of this minimize call
    results,        \* history: what a client's minimize calls returned
    read,           \* history: the texts of the files investigated so far
    caller,         \* who called find_minimal_example_from_source
    tool,           \* pep8(): what the checker's process did
    scraped,        \* pep8(): what pep8() made of it
    tmpfiles,       \* source_in_file: the temporary files that exist
    written,        \* history: <<error, text>> of each example file written
    yielded         \* a shrinker's generator: the candidates yielded so far

vars == <<world, max_size, errors_cache, best_examples, recycling, examples,
          pending, pc, changed, items, error, source, current_best, seen,
          shrinker, simplified, example, invoked, hits, answers, overwrites,
          prior, before, validated, judged,
          results, read, caller, tool, scraped, tmpfiles, written, yielded>>

\* all_python_files(self.src), shuffled: the order is any, and each file's
\* text is whatever the corpus holds.
Files == <<"f1.py", "f2.py">>

EmptyMap == [x \in {} |-> <<>>]

\* with open(path, 'w') as o: o.write(content)
WriteFile(dir, path, content) ==
    [p \in DOMAIN dir \cup {path} |-> IF p = path THEN content ELSE dir[p]]

\* hashlib.md5(source.encode('utf-8')).digest()
Md5(s) == <<"md5", s>>

\* trash_file
trash_file(s) == <<"recycling", s>>

\* error.lower()
Lower(e) == CASE e = "E1" -> "e1" [] e = "W2" -> "w2" [] OTHER -> e

\* example_file_for_error
example_file_for_error(e) == <<"examples", Lower(e)>>

note_source_unwritten(dir, s) ==
    IF trash_file(s) \in DOMAIN dir THEN dir ELSE dir @@ (trash_file(s) :> <<>>)

\* note_source, on the recycling directory
note_source(dir, s) ==
    IF trash_file(s) \in DOMAIN dir THEN dir ELSE dir @@ (trash_file(s) :> s)

CacheHit_never(cache, key) == FALSE

\* if key in self.errors_cache
CacheHit(cache, key) == key \in DOMAIN cache

IsBetterExample_orEqual(best, e, s) ==
    IF e \notin DOMAIN best THEN TRUE ELSE Len(s) <= Len(best[e])

IsBetterExample_longer(best, e, s) ==
    IF e \notin DOMAIN best THEN TRUE ELSE Len(s) > Len(best[e])

\* lines 155-157: the condition under which source becomes the best example
IsBetterExample(best, e, s) ==
    IF e \notin DOMAIN best THEN TRUE ELSE Len(s) < Len(best[e])

\* lines 154-159
UpdateBest(best, result, s) ==
    [e \in DOMAIN best \cup result |->
        IF e \in result /\ IsBetterExample(best, e, s) THEN s ELSE best[e]]

\* The part of the state errors_in_source reads and writes.
Peppy == [errors_cache |-> errors_cache, best_examples |-> best_examples,
          recycling |-> recycling, invoked |-> invoked, hits |-> hits,
          answers |-> answers]

\* history: errors_in_source(s) returned result
Answered(ans, s, result) ==
    WriteFile(ans, s, (IF s \in DOMAIN ans THEN ans[s] ELSE {}) \cup {result})

OnCacheHit_rerun(st, s) ==
    [st EXCEPT
        !.hits = @ \cup {s},
        !.answers = Answered(@, s, st.errors_cache[Md5(s)]),
        !.invoked = IF s \in DOMAIN @ THEN [@ EXCEPT ![s] = @ + 1] ELSE @ @@ (s :> 1)]

\* return self.errors_cache[key]: the object is left as it is, and the
\* history notes the hit and the set returned
OnCacheHit(st, s) ==
    [st EXCEPT
        !.hits = @ \cup {s},
        !.answers = Answered(@, s, st.errors_cache[Md5(s)])]

\* errors_in_source: the state after the call and the set returned.
errors_in_source(w, st, s) ==
    IF CacheHit(st.errors_cache, Md5(s))
    THEN [st |-> OnCacheHit(st, s), result |-> st.errors_cache[Md5(s)]]
    ELSE LET result == pep8(RunPep8(w, s)).result
         IN  [st |-> [st EXCEPT
                 !.recycling = note_source(@, s),
                 !.invoked = IF s \in DOMAIN @ THEN [@ EXCEPT ![s] = @ + 1]
                             ELSE @ @@ (s :> 1),
                 !.answers = Answered(@, s, result),
                 !.errors_cache = WriteFile(@, Md5(s), result),
                 !.best_examples = UpdateBest(@, result, s)],
              result |-> result]

---------------------------------------------------------------------------
(* find_minimal_example_from_source                                        *)

IsEmptyCandidate_never(simpler) == FALSE

\* if not simpler
IsEmptyCandidate(simpler) == simpler = <<>>

AlreadySeen_never(sn, signature) == FALSE

\* if signature in seen
AlreadySeen(sn, signature) == signature \in sn

\* if len(simpler) >= len(current_best)
NotSmaller(simpler, best) == Len(simpler) >= Len(best)

UnderFloor_strict(best, floor) == Len(best) < floor

\* if len(current_best) <= self.max_size
UnderFloor(best, floor) == Len(best) <= floor

is_example_any(e, result) == TRUE

is_example_nonempty(e, result) == result # {}

\* is_example: lambda source: error in self.errors_in_source(source)
is_example(e, result) == e \in result

Adopt_once(acc, simpler) == [acc EXCEPT !.current_best = simpler, !.broke = TRUE]

\* current_best = simpler; simplified = True; break
Adopt(acc, simpler) ==
    [acc EXCEPT !.simplified = TRUE, !.current_best = simpler, !.broke = TRUE]

\* The body of "for simpler in shrinker(current_best)" on one candidate:
\* every "continue" leaves acc.broke FALSE, the adoption sets it.
TrySimpler(w, e, best, simpler, acc) ==
    IF IsEmptyCandidate(simpler) THEN acc
    ELSE IF AlreadySeen(acc.seen, Md5(simpler)) THEN acc
    ELSE LET a1 == [acc EXCEPT !.seen = @ \cup {Md5(simpler)}] IN
    IF NotSmaller(simpler, best) THEN a1
    ELSE LET a2 == [a1 EXCEPT !.validated = Append(@, simpler)] IN
    IF ~is_valid_source(w, simpler) THEN a2
    ELSE LET a3 == [a2 EXCEPT !.st.recycling = note_source(@, simpler)] IN
    IF NotSmaller(simpler, best) THEN a3
    ELSE LET r  == errors_in_source(w, a3.st, simpler)
             a4 == [a3 EXCEPT !.st = r.st, !.judged = Append(@, simpler)]
         IN  IF is_example(e, r.result) THEN Adopt(a4, simpler) ELSE a4

\* One run of "for simpler in shrinker(current_best)" over the candidates
\* lo..hi, in their order, until the break that follows an adoption or the
\* end of the candidates.  The range is halved to keep the evaluation
\* shallow; the candidates are still taken one by one from lo to hi.
RECURSIVE ForSimpler(_, _, _, _, _, _, _)
ForSimpler(w, e, best, cands, lo, hi, acc) ==
    IF lo > hi THEN acc
    ELSE IF lo = hi THEN TrySimpler(w, e, best, cands[lo], acc)
    ELSE LET mid == (lo + hi) \div 2
             a   == ForSimpler(w, e, best, cands, lo, mid, acc)
         IN  IF a.broke THEN a
             ELSE ForSimpler(w, e, best, cands, mid + 1, hi, a)

\* for simpler in shrinker(current_best): the whole loop
ForAllSimpler(w, e, best, cands, acc) ==
    ForSimpler(w, e, best, cands, 1, Len(cands), acc)

Pass0_keeps == [st |-> Peppy, seen |-> seen, validated |-> validated,
                judged |-> judged, simplified |-> simplified,
                current_best |-> current_best, broke |-> FALSE]

\* The while loop's state as one pass of the for loop finds it.
Pass0 == [st |-> Peppy, seen |-> seen, validated |-> validated,
          judged |-> judged, simplified |-> FALSE, current_best |-> current_best,
          broke |-> FALSE]

\* current_best = source; seen = set(); first shrinker, simplified = True
EnterMinimize(e, s) ==
    /\ error' = e
    /\ source' = s
    /\ current_best' = s
    /\ seen' = {}
    /\ shrinker' = 1
    /\ simplified' = TRUE
    /\ validated' = <<>>
    /\ judged' = <<>>
    /\ pc' = "while"

\* while simplified: if len(current_best) <= self.max_size: return current_best
MinimizeFloor ==
    /\ pc = "while"
    /\ simplified
    /\ UnderFloor(current_best, max_size)
    /\ example' = current_best
    /\ pc' = "return"
    /\ UNCHANGED <<world, max_size, errors_cache, best_examples, recycling,
                   examples, pending, changed, items, error, source,
                   current_best, seen, shrinker, simplified, invoked, hits,
                   answers, overwrites, prior, before, validated, judged,
                   results, read, caller, tool, scraped, tmpfiles, written,
                   yielded>>

\* while simplified: simplified = False; for simpler in shrinker(...): ...
MinimizePass ==
    /\ pc = "while"
    /\ simplified
    /\ ~UnderFloor(current_best, max_size)
    /\ LET a == ForAllSimpler(world, error, current_best,
                              Shrink(Shrinkers[shrinker], current_best), Pass0)
       IN  /\ errors_cache' = a.st.errors_cache
           /\ best_examples' = a.st.best_examples
           /\ recycling' = a.st.recycling
           /\ invoked' = a.st.invoked
           /\ hits' = a.st.hits
           /\ answers' = a.st.answers
           /\ seen' = a.seen
           /\ validated' = a.validated
           /\ judged' = a.judged
           /\ simplified' = a.simplified
           /\ current_best' = a.current_best
    /\ UNCHANGED <<world, max_size, examples, pending, pc, changed, items, error,
                   source, shrinker, example, overwrites, prior, before, results,
                   read, caller, tool, scraped, tmpfiles, written, yielded>>

\* the while loop ends: the next shrinker, with simplified = True
MinimizeNextShrinker ==
    /\ pc = "while"
    /\ ~simplified
    /\ shrinker < Len(Shrinkers)
    /\ shrinker' = shrinker + 1
    /\ simplified' = TRUE
    /\ UNCHANGED <<world, max_size, errors_cache, best_examples, recycling,
                   examples, pending, pc, changed, items, error, source,
                   current_best, seen, example, invoked, hits, answers,
                   overwrites, prior, before, validated, judged, results, read,
                   caller, tool, scraped, tmpfiles, written, yielded>>

\* the last shrinker's while loop ends: return current_best
MinimizeExhausted ==
    /\ pc = "while"
    /\ ~simplified
    /\ shrinker = Len(Shrinkers)
    /\ example' = current_best
    /\ pc' = "return"
    /\ UNCHANGED <<world, max_size, errors_cache, best_examples, recycling,
                   examples, pending, changed, items, error, source,
                   current_best, seen, shrinker, simplified, invoked, hits,
                   answers, overwrites, prior, before, validated, judged,
                   results, read, caller, tool, scraped, tmpfiles, written,
                   yielded>>

\* find_minimal_example_from_source as a function of its arguments: the
\* while loops of shrinker number sh onwards, from the loop state m.
RECURSIVE WhileSimplified(_, _, _, _, _)
WhileSimplified(w, floor, e, sh, m) ==
    IF m.simplified
    THEN IF UnderFloor(m.current_best, floor) THEN m
         ELSE WhileSimplified(w, floor, e, sh,
                  ForAllSimpler(w, e, m.current_best,
                                Shrink(Shrinkers[sh], m.current_best),
                                [m EXCEPT !.simplified = FALSE, !.broke = FALSE]))
    ELSE IF sh < Len(Shrinkers)
         THEN WhileSimplified(w, floor, e, sh + 1, [m EXCEPT !.simplified = TRUE])
         ELSE m

\* A Peppy object that has classified nothing.
NewPeppy == [errors_cache |-> EmptyMap, best_examples |-> EmptyMap,
             recycling |-> EmptyMap, invoked |-> EmptyMap, hits |-> {},
             answers |-> EmptyMap]

\* The text find_minimal_example_from_source(s, is_example) returns when
\* is_example asks for category e.
find_minimal_example_from_source(w, floor, e, s) ==
    WhileSimplified(w, floor, e, 1,
        [st |-> NewPeppy, seen |-> {}, validated |-> <<>>, judged |-> <<>>,
         simplified |-> TRUE, current_best |-> s, broke |-> FALSE]).current_best

---------------------------------------------------------------------------
(* investigate_pep8_status and run                                         *)

ExistingIsSmallEnough_always(existing_length, s) == TRUE

ExistingIsSmallEnough_strict(existing_length, s) == existing_length < Len(s)

\* if existing_length <= len(source): continue
ExistingIsSmallEnough(existing_length, s) == existing_length <= Len(s)

UpToDate_never(dir, e, s) == FALSE

\* lines 235-238: the example file exists and is no longer than source
UpToDate(dir, e, s) ==
    /\ example_file_for_error(e) \in DOMAIN dir
    /\ ExistingIsSmallEnough(Len(dir[example_file_for_error(e)]), s)

\* list(self.best_examples.items())
BestItems(best) == {<<e, best[e]>> : e \in DOMAIN best}

\* if not is_valid_source(source): return
InvalidFile(src) ==
    /\ pc = "run"
    /\ pending # <<>>
    /\ ~is_valid_source(world, src)
    /\ pending' = Tail(pending)
    /\ read' = Append(read, src)
    /\ before' = [examples |-> examples, recycling |-> recycling]
    /\ UNCHANGED <<world, max_size, errors_cache, best_examples, recycling,
                   examples, pc, changed, items, error, source, current_best,
                   seen, shrinker, simplified, example, invoked, hits, answers,
                   overwrites, prior, validated, judged, results, caller, tool,
                   scraped, tmpfiles, written, yielded>>

\* errors = self.errors_in_source(source), on a valid file
Classified(src) == errors_in_source(world, Peppy, src)

ClassifyFile(src) ==
    /\ pc = "run"
    /\ pending # <<>>
    /\ is_valid_source(world, src)
    /\ pending' = Tail(pending)
    /\ read' = Append(read, src)
    /\ errors_cache' = Classified(src).st.errors_cache
    /\ best_examples' = Classified(src).st.best_examples
    /\ recycling' = Classified(src).st.recycling
    /\ invoked' = Classified(src).st.invoked
    /\ hits' = Classified(src).st.hits
    /\ answers' = Classified(src).st.answers
    /\ before' = [examples |-> examples, recycling |-> recycling]

\* else: print('clean'); return
CleanFile(src) ==
    /\ ClassifyFile(src)
    /\ Classified(src).result = {}
    /\ UNCHANGED <<world, max_size, examples, pc, changed, items, error, source,
                   current_best, seen, shrinker, simplified, example, overwrites,
                   prior, validated, judged, results, caller, tool, scraped,
                   tmpfiles, written, yielded>>

\* if errors: print(...); changed = True
DirtyFile(src) ==
    /\ ClassifyFile(src)
    /\ Classified(src).result # {}
    /\ changed' = TRUE
    /\ pc' = "loop"
    /\ UNCHANGED <<world, max_size, examples, items, error, source, current_best,
                   seen, shrinker, simplified, example, overwrites, prior,
                   validated, judged, results, caller, tool, scraped, tmpfiles,
                   written, yielded>>

\* while changed: changed = False; for error, source in list(...)
LoopAgain ==
    /\ pc = "loop"
    /\ changed
    /\ changed' = FALSE
    /\ items' = BestItems(best_examples)
    /\ pc' = "for"
    /\ UNCHANGED <<world, max_size, errors_cache, best_examples, recycling,
                   examples, pending, error, source, current_best, seen,
                   shrinker, simplified, example, invoked, hits, answers,
                   overwrites, prior, before, validated, judged, results, read,
                   caller, tool, scraped, tmpfiles, written, yielded>>

\* while changed: a pass changed nothing, investigate_pep8_status returns
LoopExit ==
    /\ pc = "loop"
    /\ ~changed
    /\ pc' = "run"
    /\ UNCHANGED <<world, max_size, errors_cache, best_examples, recycling,
                   examples, pending, changed, items, error, source,
                   current_best, seen, shrinker, simplified, example, invoked,
                   hits, answers, overwrites, prior, before, validated, judged,
                   results, read, caller, tool, scraped, tmpfiles, written,
                   yielded>>

\* the for loop: note_source(source), and continue when the file is up to date
ForSkip(it) ==
    /\ pc = "for"
    /\ it \in items
    /\ UpToDate(examples, it[1], it[2])
    /\ items' = items \ {it}
    /\ recycling' = note_source(recycling, it[2])
    /\ error' = it[1]
    /\ source' = it[2]
    /\ UNCHANGED <<world, max_size, errors_cache, best_examples, examples,
                   pending, pc, changed, current_best, seen, shrinker,
                   simplified, example, invoked, hits, answers, overwrites,
                   prior, before, validated, judged, results, read, caller, tool,
                   scraped, tmpfiles, written, yielded>>

\* the for loop: changed = True and the call of
\* find_minimal_example_from_source
ForShrink(it) ==
    /\ pc = "for"
    /\ it \in items
    /\ ~UpToDate(examples, it[1], it[2])
    /\ items' = items \ {it}
    /\ recycling' = note_source(recycling, it[2])
    /\ changed' = TRUE
    /\ EnterMinimize(it[1], it[2])
    /\ UNCHANGED <<world, max_size, errors_cache, best_examples, examples,
                   pending, example, invoked, hits, answers, overwrites, prior,
                   before, results, read, caller, tool, scraped, tmpfiles,
                   written, yielded>>

\* the for loop is through its list
ForEnd ==
    /\ pc = "for"
    /\ items = {}
    /\ pc' = "loop"
    /\ UNCHANGED <<world, max_size, errors_cache, best_examples, recycling,
                   examples, pending, changed, items, error, source,
                   current_best, seen, shrinker, simplified, example, invoked,
                   hits, answers, overwrites, prior, before, validated, judged,
                   results, read, caller, tool, scraped, tmpfiles, written,
                   yielded>>

\* assert len(example) <= len(source); with open(target, 'w') as o: ...
WriteExample ==
    /\ pc = "return"
    /\ caller = "investigate_pep8_status"
    /\ IF Len(example) <= Len(source)
       THEN /\ examples' = WriteFile(examples, example_file_for_error(error), example)
            /\ overwrites' = overwrites \cup
                   {<<p, examples[p], example>> :
                       p \in {example_file_for_error(error)} \cap DOMAIN examples}
            /\ written' = written \cup {<<error, example>>}
            /\ pc' = "for"
       ELSE /\ examples' = examples
            /\ overwrites' = overwrites
            /\ written' = written
            /\ pc' = "AssertionError"
    /\ UNCHANGED <<world, max_size, errors_cache, best_examples, recycling,
                   pending, changed, items, error, source, current_best, seen,
                   shrinker, simplified, example, invoked, hits, answers, prior,
                   before, validated, judged, results, read, caller, tool,
                   scraped, tmpfiles, yielded>>

\* Example files a previous run may have left.
PriorExamples ==
    { EmptyMap,
      (example_file_for_error("E1") :> <<"a", NL, "a", NL>>) }

\* Peppy(...): __init__, and run() about to investigate its first file
Init ==
    /\ world \in Worlds
    /\ max_size \in 0..MaxFloor
    /\ errors_cache = EmptyMap
    /\ best_examples = EmptyMap
    /\ recycling = EmptyMap
    /\ examples \in PriorExamples
    /\ pending = Files
    /\ pc = "run"
    /\ changed = FALSE
    /\ items = {}
    /\ error = "E1"
    /\ source = <<>>
    /\ current_best = <<>>
    /\ seen = {}
    /\ shrinker = 1
    /\ simplified = FALSE
    /\ example = <<>>
    /\ invoked = EmptyMap
    /\ hits = {}
    /\ answers = EmptyMap
    /\ overwrites = {}
    /\ prior = examples
    /\ before = [examples |-> examples, recycling |-> recycling]
    /\ validated = <<>>
    /\ judged = <<>>
    /\ results = <<>>
    /\ read = <<>>
    /\ caller = "investigate_pep8_status"
    /\ tool = RunPep8(world, <<>>)
    /\ scraped = pep8(tool)
    /\ tmpfiles = {}
    /\ written = {}
    /\ yielded = <<>>

Next ==
    \/ \E src \in Corpus : InvalidFile(src)
    \/ \E src \in Corpus : CleanFile(src)
    \/ \E src \in Corpus : DirtyFile(src)
    \/ LoopAgain
    \/ LoopExit
    \/ \E it \in items : ForSkip(it)
    \/ \E it \in items : ForShrink(it)
    \/ ForEnd
    \/ MinimizeFloor
    \/ MinimizePass
    \/ MinimizeNextShrinker
    \/ MinimizeExhausted
    \/ WriteExample

Spec == Init /\ [][Next]_vars

---------------------------------------------------------------------------
(* A client of find_minimal_example_from_source: it minimizes one source   *)
(* for one category, as investigate_pep8_status does, and then minimizes   *)
(* what it got.                                                            *)

\* A source whose first line is longer than the widest character window.
LongSources ==
    { LongLine \o <<NL, "a", "b">>,
      LongLine \o <<NL, "b">> }

MinSources == TextsUpTo(Alphabet, MaxLen) \cup LongSources

ClientCall(src, e) ==
    /\ pc = "client"
    /\ results = <<>>
    /\ EnterMinimize(e, src)
    /\ UNCHANGED <<world, max_size, errors_cache, best_examples, recycling,
                   examples, pending, changed, items, example, invoked, hits,
                   answers, overwrites, prior, before, results, read, caller,
                   tool, scraped, tmpfiles, written, yielded>>

ClientReturn ==
    /\ pc = "return"
    /\ caller = "client"
    /\ results' = Append(results, example)
    /\ pc' = "client"
    /\ UNCHANGED <<world, max_size, errors_cache, best_examples, recycling,
                   examples, pending, changed, items, error, source,
                   current_best, seen, shrinker, simplified, example, invoked,
                   hits, answers, overwrites, prior, before, validated, judged,
                   read, caller, tool, scraped, tmpfiles, written, yielded>>

ClientCallAgain ==
    /\ pc = "client"
    /\ Len(results) = 1
    /\ EnterMinimize(error, results[1])
    /\ UNCHANGED <<world, max_size, errors_cache, best_examples, recycling,
                   examples, pending, changed, items, example, invoked, hits,
                   answers, overwrites, prior, before, results, read, caller,
                   tool, scraped, tmpfiles, written, yielded>>

InitMin ==
    /\ world \in Worlds
    /\ max_size \in 0..MaxFloor
    /\ errors_cache = EmptyMap
    /\ best_examples = EmptyMap
    /\ recycling = EmptyMap
    /\ examples = EmptyMap
    /\ pending = <<>>
    /\ pc = "client"
    /\ changed = FALSE
    /\ items = {}
    /\ error = "E1"
    /\ source = <<>>
    /\ current_best = <<>>
    /\ seen = {}
    /\ shrinker = 1
    /\ simplified = FALSE
    /\ example = <<>>
    /\ invoked = EmptyMap
    /\ hits = {}
    /\ answers = EmptyMap
    /\ overwrites = {}
    /\ prior = examples
    /\ before = [examples |-> examples, recycling |-> recycling]
    /\ validated = <<>>
    /\ judged = <<>>
    /\ results = <<>>
    /\ read = <<>>
    /\ caller = "client"
    /\ tool = RunPep8(world, <<>>)
    /\ scraped = pep8(tool)
    /\ tmpfiles = {}
    /\ written = {}
    /\ yielded = <<>>

NextMin ==
    \/ \E src \in MinSources, e \in Cats : ClientCall(src, e)
    \/ ClientReturn
    \/ ClientCallAgain
    \/ MinimizeFloor
    \/ MinimizePass
    \/ MinimizeNextShrinker
    \/ MinimizeExhausted

SpecMin == InitMin /\ [][NextMin]_vars

---------------------------------------------------------------------------
(* The same function with the for loop taken one candidate a step.         *)

\* while simplified: (above the floor) simplified = False; the for loop starts
ForBegin ==
    /\ pc = "while"
    /\ simplified
    /\ ~UnderFloor(current_best, max_size)
    /\ simplified' = Pass0.simplified
    /\ yielded' = <<>>
    /\ pc' = "for simpler"
    /\ UNCHANGED <<world, max_size, errors_cache, best_examples, recycling,
                   examples, pending, changed, items, error, source,
                   current_best, seen, shrinker, example, invoked, hits, answers,
                   overwrites, prior, before, validated, judged, results, read,
                   caller, tool, scraped, tmpfiles, written>>

\* for simpler in shrinker(current_best): the body, on the next candidate
ForCandidate ==
    /\ pc = "for simpler"
    /\ Len(yielded) < Len(Shrink(Shrinkers[shrinker], current_best))
    /\ LET simpler == Shrink(Shrinkers[shrinker], current_best)[Len(yielded) + 1]
           a == TrySimpler(world, error, current_best, simpler, Pass0)
       IN  /\ errors_cache' = a.st.errors_cache
           /\ best_examples' = a.st.best_examples
           /\ recycling' = a.st.recycling
           /\ invoked' = a.st.invoked
           /\ hits' = a.st.hits
           /\ answers' = a.st.answers
           /\ seen' = a.seen
           /\ validated' = a.validated
           /\ judged' = a.judged
           /\ simplified' = a.simplified
           /\ current_best' = a.current_best
           /\ yielded' = Append(yielded, simpler)
           /\ pc' = IF a.broke THEN "while" ELSE "for simpler"
    /\ UNCHANGED <<world, max_size, examples, pending, changed, items, error,
                   source, shrinker, example, overwrites, prior, before, results,
                   read, caller, tool, scraped, tmpfiles, written>>

\* the for loop has no candidate left
ForExhausted ==
    /\ pc = "for simpler"
    /\ Len(yielded) = Len(Shrink(Shrinkers[shrinker], current_best))
    /\ pc' = "while"
    /\ UNCHANGED <<world, max_size, errors_cache, best_examples, recycling,
                   examples, pending, changed, items, error, source,
                   current_best, seen, shrinker, simplified, example, invoked,
                   hits, answers, overwrites, prior, before, validated, judged,
                   results, read, caller, tool, scraped, tmpfiles, written,
                   yielded>>

\* The steps of find_minimal_example_from_source itself.
MinimizeStep ==
    \/ MinimizeFloor
    \/ ForBegin
    \/ ForCandidate
    \/ ForExhausted
    \/ MinimizeNextShrinker
    \/ MinimizeExhausted

NextMinLive ==
    \/ \E src \in MinSources, e \in Cats : ClientCall(src, e)
    \/ ClientReturn
    \/ MinimizeStep

\* The function is inside its loops.
Running == pc \in {"while", "for simpler"}

\* Every variable but pc.
NotPc == <<world, max_size, errors_cache, best_examples, recycling,
           examples, pending, changed, items, error, source, current_best,
           seen, shrinker, simplified, example, invoked, hits, answers,
           overwrites, prior, before, validated, judged, results, read,
           caller, tool, scraped, tmpfiles, written, yielded>>

\* The function takes a step: Running /\ pc' \in {"while", "for simpler",
\* "return"}.  From a state inside the loops the steps of NextMinLive are
\* those of MinimizeStep, one of them is always possible and each changes
\* pc, shrinker or yielded: so this action is taken exactly when
\* MinimizeStep is, and it is enabled exactly when MinimizeStep is.  The
\* first disjunct is an instance of the second, spelled out with every
\* variable so that the enabling condition can be evaluated.
Advance ==
    /\ Running
    /\ \/ pc' = "return" /\ UNCHANGED NotPc
       \/ pc' \in {"while", "for simpler", "return"}

\* A call that has started keeps running: the function waits for nothing.
SpecMinLive == InitMin /\ [][NextMinLive]_vars /\ WF_vars(Advance)

---------------------------------------------------------------------------
(* pep8() on whatever a checker process may do                             *)

\* The lines a checker may print.
OutLines ==
    { <<>>,
      <<" ">>,
      DiagLine("E1"),
      DiagLine("W2"),
      <<" ", "f.py:2:1:", " ", "W2", " ", "message", " ">>,
      <<"Traceback">>,
      <<"f.py:1:1:", " ", "E1">>,
      <<"f.py:1:1:", "\t", "E1", " ", "message">>,
      <<"f.py:1:1:", " ", " ", "E1", " ", "message">> }

RECURSIVE Outputs(_)
Outputs(n) ==
    IF n = 0 THEN {<<>>}
    ELSE {Append(o, l) : o \in Outputs(n - 1), l \in OutLines}

\* e.output.decode('ascii').split('\n') has at least one line
ToolRuns ==
    [rc : {0, 1}, out : UNION {Outputs(n) : n \in 1..MaxOutLines}]

\* tempfile.mkstemp(suffix='.py'): the path of a file just created
TempPath == "tmp.py"

\* source_in_file: fno, filepath = tempfile.mkstemp(suffix='.py'); os.close(fno)
Mkstemp ==
    /\ pc = "source_in_file"
    /\ tmpfiles' = tmpfiles \cup {TempPath}
    /\ pc' = "write"
    /\ UNCHANGED <<world, max_size, errors_cache, best_examples, recycling,
                   examples, pending, changed, items, error, source,
                   current_best, seen, shrinker, simplified, example, invoked,
                   hits, answers, overwrites, prior, before, validated, judged,
                   results, read, caller, tool, scraped, written, yielded>>

\* source_in_file: with open(filepath, 'w') as o: o.write(source), done
WriteSource ==
    /\ pc = "write"
    /\ pc' = "pep8"
    /\ UNCHANGED <<world, max_size, errors_cache, best_examples, recycling,
                   examples, pending, changed, items, error, source,
                   current_best, seen, shrinker, simplified, example, invoked,
                   hits, answers, overwrites, prior, before, validated, judged,
                   results, read, caller, tool, scraped, tmpfiles, written,
                   yielded>>

\* source_in_file: the same, when open or write raises (the text cannot be
\* encoded in the locale's encoding, the disk is full); the try of line 36
\* has not been entered
WriteFails ==
    /\ pc = "write"
    /\ pc' = "OSError"
    /\ UNCHANGED <<world, max_size, errors_cache, best_examples, recycling,
                   examples, pending, changed, items, error, source,
                   current_best, seen, shrinker, simplified, example, invoked,
                   hits, answers, overwrites, prior, before, validated, judged,
                   results, read, caller, tool, scraped, tmpfiles, written,
                   yielded>>

\* result = pep8(filepath), in the with block of errors_in_source
ScrapePep8 ==
    /\ pc = "pep8"
    /\ scraped' = pep8(tool)
    /\ pc' = "scraped"
    /\ UNCHANGED <<world, max_size, errors_cache, best_examples, recycling,
                   examples, pending, changed, items, error, source,
                   current_best, seen, shrinker, simplified, example, invoked,
                   hits, answers, overwrites, prior, before, validated, judged,
                   results, read, caller, tool, tmpfiles, written, yielded>>

\* source_in_file: finally: os.remove(filepath), on return and on exception
RemoveTemp ==
    /\ pc = "scraped"
    /\ tmpfiles' = tmpfiles \ {TempPath}
    /\ pc' = IF scraped.raised THEN "AssertionError" ELSE "classified"
    /\ UNCHANGED <<world, max_size, errors_cache, best_examples, recycling,
                   examples, pending, changed, items, error, source,
                   current_best, seen, shrinker, simplified, example, invoked,
                   hits, answers, overwrites, prior, before, validated, judged,
                   results, read, caller, tool, scraped, written, yielded>>

InitPep8 ==
    /\ world = CHOOSE w \in Worlds : w.valid = "keyword"
    /\ max_size = 0
    /\ errors_cache = EmptyMap
    /\ best_examples = EmptyMap
    /\ recycling = EmptyMap
    /\ examples = EmptyMap
    /\ pending = <<>>
    /\ pc = "source_in_file"
    /\ changed = FALSE
    /\ items = {}
    /\ error = "E1"
    /\ source = <<>>
    /\ current_best = <<>>
    /\ seen = {}
    /\ shrinker = 1
    /\ simplified = FALSE
    /\ example = <<>>
    /\ invoked = EmptyMap
    /\ hits = {}
    /\ answers = EmptyMap
    /\ overwrites = {}
    /\ prior = examples
    /\ before = [examples |-> examples, recycling |-> recycling]
    /\ validated = <<>>
    /\ judged = <<>>
    /\ results = <<>>
    /\ read = <<>>
    /\ caller = "client"
    /\ tool \in ToolRuns
    /\ scraped = [raised |-> FALSE, result |-> {}]
    /\ tmpfiles = {}
    /\ written = {}
    /\ yielded = <<>>

NextPep8 == Mkstemp \/ WriteSource \/ WriteFails \/ ScrapePep8 \/ RemoveTemp

SpecPep8 == InitPep8 /\ [][NextPep8]_vars

---------------------------------------------------------------------------
(* The run, when investigate_pep8_status keeps running once it is called.  *)

\* investigate_pep8_status is inside its while loop.
InLoop == pc \in {"loop", "for", "while", "return"}

\* investigate_pep8_status takes a step: InLoop and pc' is one of the places
\* a step leads to.  From a state inside the loop the steps of Next are the
\* loop's own and those of find_minimal_example_from_source, one of them is
\* always possible and each changes pc, changed, items, shrinker,
\* simplified or current_best.  The first disjunct is an instance of the
\* second, spelled out with every variable so that the enabling condition
\* can be evaluated.
AdvanceLoop ==
    /\ InLoop
    /\ \/ pc' = "run" /\ UNCHANGED NotPc
       \/ pc' \in {"loop", "for", "while", "return", "run", "AssertionError"}

SpecLive == Spec /\ WF_vars(AdvanceLoop)

---------------------------------------------------------------------------
(* A shrinker's generator, iterated by a for loop: one candidate a step.   *)

\* next(shrinker(source)) yields a candidate
Yield ==
    /\ pc = "shrink"
    /\ Len(yielded) < Len(Shrink(Shrinkers[shrinker], source))
    /\ yielded' = Append(yielded, Shrink(Shrinkers[shrinker], source)[Len(yielded) + 1])
    /\ UNCHANGED <<world, max_size, errors_cache, best_examples, recycling,
                   examples, pending, pc, changed, items, error, source,
                   current_best, seen, shrinker, simplified, example, invoked,
                   hits, answers, overwrites, prior, before, validated, judged,
                   results, read, caller, tool, scraped, tmpfiles, written>>

\* next(shrinker(source)) raises StopIteration
StopIteration ==
    /\ pc = "shrink"
    /\ Len(yielded) = Len(Shrink(Shrinkers[shrinker], source))
    /\ pc' = "exhausted"
    /\ UNCHANGED <<world, max_size, errors_cache, best_examples, recycling,
                   examples, pending, changed, items, error, source,
                   current_best, seen, shrinker, simplified, example, invoked,
                   hits, answers, overwrites, prior, before, validated, judged,
                   results, read, caller, tool, scraped, tmpfiles, written,
                   yielded>>

InitShrink ==
    /\ world = CHOOSE w \in Worlds : w.valid = "keyword"
    /\ max_size = 0
    /\ errors_cache = EmptyMap
    /\ best_examples = EmptyMap
    /\ recycling = EmptyMap
    /\ examples = EmptyMap
    /\ pending = <<>>
    /\ pc = "shrink"
    /\ changed = FALSE
    /\ items = {}
    /\ error = "E1"
    /\ source \in MinSources
    /\ current_best = source
    /\ seen = {}
    /\ shrinker \in 1..Len(Shrinkers)
    /\ simplified = FALSE
    /\ example = <<>>
    /\ invoked = EmptyMap
    /\ hits = {}
    /\ answers = EmptyMap
    /\ overwrites = {}
    /\ prior = examples
    /\ before = [examples |-> examples, recycling |-> recycling]
    /\ validated = <<>>
    /\ judged = <<>>
    /\ results = <<>>
    /\ read = <<>>
    /\ caller = "client"
    /\ tool = RunPep8(world, <<>>)
    /\ scraped = [raised |-> FALSE, result |-> {}]
    /\ tmpfiles = {}
    /\ written = {}
    /\ yielded = <<>>

NextShrink == Yield \/ StopIteration

SpecShrink == InitShrink /\ [][NextShrink]_vars

---------------------------------------------------------------------------
(* The claims                                                              *)

Last(q) == q[Len(q)]

Range(q) == {q[i] : i \in 1..Len(q)}

NoRepeat(q) == \A i, j \in 1..Len(q) : i < j => q[i] # q[j]

InMinimize == pc \in {"while", "return"}

\* C1: when find_minimal_example_from_source returns, on a source that
\* compiles and triggers the category asked for, the text returned is no
\* longer than the source, compiles, and triggers the category: it is the
\* source or a candidate that passed both tests.  The assertion of
\* investigate_pep8_status therefore never fails.
C1_MinimizeKeepsPredicate ==
    /\ pc # "AssertionError"
    /\ (/\ pc = "return"
        /\ is_valid_source(world, source)
        /\ error \in Triggered(world, source))
       => /\ Len(example) <= Len(source)
          /\ is_valid_source(world, example)
          /\ error \in Triggered(world, example)
          /\ Md5(example) \in DOMAIN errors_cache
          /\ error \in errors_cache[Md5(example)]
          /\ example # source => example \in Range(validated) \cap Range(judged)

C1_Witness ==
    /\ pc = "return"
    /\ caller = "investigate_pep8_status"
    /\ example # source
    /\ Len(example) > max_size
    /\ Len(judged) > 1

\* C2: errors_in_source returns one and the same set for a text however
\* often it is asked, and pep8 runs at most once on a text.
C2_ClassifiedOnce ==
    /\ \A t \in DOMAIN answers : Cardinality(answers[t]) = 1
    /\ \A t \in DOMAIN invoked : invoked[t] <= 1

C2_Witness ==
    \E t \in hits :
        /\ t \in DOMAIN invoked
        /\ invoked[t] = 1
        /\ answers[t] = {Triggered(world, t)}
        /\ Triggered(world, t) # {}

\* C3: an example file that is rewritten gets a strictly shorter content
\* than the one it had.
C3_OverwriteShrinks ==
    \A o \in overwrites : Len(o[3]) < Len(o[2])

C3_Witness ==
    \E o \in overwrites : o[1] \notin DOMAIN prior

\* Two files of different lengths, both compiling and both triggering c,
\* have been investigated one after the other, and the run found no
\* example file for c.
C4_Case(c) ==
    /\ pc = "run"
    /\ Len(read) = 2
    /\ Len(read[1]) # Len(read[2])
    /\ is_valid_source(world, read[1])
    /\ is_valid_source(world, read[2])
    /\ c \in Triggered(world, read[1]) \cap Triggered(world, read[2])
    /\ example_file_for_error(c) \notin DOMAIN prior

C4_FromFirst(c) == find_minimal_example_from_source(world, max_size, c, read[1])

C4_FromSecond(c) == find_minimal_example_from_source(world, max_size, c, read[2])

\* C4 as claimed: the example file then holds the shorter of the two texts
\* find_minimal_example_from_source makes of the two files.
C4_ShorterOfBoth ==
    \A c \in Cats :
        C4_Case(c) =>
            /\ example_file_for_error(c) \in DOMAIN examples
            /\ examples[example_file_for_error(c)] \in {C4_FromFirst(c), C4_FromSecond(c)}
            /\ Len(examples[example_file_for_error(c)]) <= Len(C4_FromFirst(c))
            /\ Len(examples[example_file_for_error(c)]) <= Len(C4_FromSecond(c))

\* C4, amended: the example file then holds a text that compiles, triggers
\* c, and is no longer than what find_minimal_example_from_source makes of
\* the first file, nor longer than the second file itself.
C4_NoLongerThanFirstMinimized ==
    \A c \in Cats :
        C4_Case(c) =>
            /\ example_file_for_error(c) \in DOMAIN examples
            /\ is_valid_source(world, examples[example_file_for_error(c)])
            /\ c \in Triggered(world, examples[example_file_for_error(c)])
            /\ Len(examples[example_file_for_error(c)]) <= Len(C4_FromFirst(c))
            /\ Len(examples[example_file_for_error(c)]) <= Len(read[2])

C4_Witness ==
    \E c \in Cats :
        /\ C4_Case(c)
        /\ Len(read[1]) < Len(read[2])
        /\ examples[example_file_for_error(c)] = C4_FromFirst(c)
        /\ Len(C4_FromSecond(c)) < Len(C4_FromFirst(c))

\* The file investigated last compiles and triggers nothing, and
\* investigate_pep8_status has returned.
C5_Case ==
    /\ pc = "run"
    /\ read # <<>>
    /\ is_valid_source(world, Last(read))
    /\ Triggered(world, Last(read)) = {}

\* C5 as claimed: investigating a clean file changes neither directory.
C5_CleanFileNoChange ==
    C5_Case => /\ examples = before.examples
               /\ recycling = before.recycling

\* C5, amended: investigating a clean file changes no example file, and its
\* only change to the recycling directory is to add the file's own text
\* under its digest when it is not there.
C5_CleanFileOnlyArchived ==
    C5_Case =>
        /\ examples = before.examples
        /\ \A p \in DOMAIN before.recycling :
              p \in DOMAIN recycling /\ recycling[p] = before.recycling[p]
        /\ DOMAIN recycling \subseteq DOMAIN before.recycling \cup {trash_file(Last(read))}
        /\ \A p \in DOMAIN recycling \ DOMAIN before.recycling :
              recycling[p] = Last(read)

C5_Witness ==
    /\ C5_Case
    /\ trash_file(Last(read)) \notin DOMAIN before.recycling
    /\ trash_file(Last(read)) \in DOMAIN recycling
    /\ before.recycling # EmptyMap

\* C6: minimizing what find_minimal_example_from_source returned returns it
\* unchanged.
C6_Idempotent ==
    Len(results) = 2 => results[2] = results[1]

\* The checker kept to its contract: it succeeded and printed nothing, or
\* it failed and printed findings, each non-blank line in the shape
\* "<location> <category> <message>".
C7_Contract(run) ==
    LET lines == {Strip(run.out[i]) : i \in 1..Len(run.out)} \ {<<>>}
    IN  IF run.rc = 0 THEN lines = {}
        ELSE lines # {} /\ \A l \in lines : ErrorCodeMatches(l)

\* C7: pep8() returns a set when the checker kept to its contract, and
\* fails on every other exit status and output.
C7_OnlyContractRunsReturn ==
    pc = "scraped" => (scraped.raised <=> ~C7_Contract(tool))

\* C8: within one call no text goes to is_valid_source twice, none goes to
\* is_example twice, and seen holds candidates of this call only.
C8_EvaluatedOnce ==
    InMinimize =>
        /\ NoRepeat(validated)
        /\ NoRepeat(judged)
        /\ \A sig \in seen : Len(sig[2]) < Len(source)

C8_Witness ==
    /\ pc = "return"
    /\ Len(example) > max_size
    /\ LET cands == character_based_shrinking(example)
       IN  \E i, j \in 1..Len(cands) :
               i < j /\ cands[i] = cands[j] /\ cands[i] \in Range(judged)

C10_NeverEmpty ==
    (InMinimize /\ source # <<>>) =>
        /\ current_best # <<>>
        /\ <<>> \notin Range(validated)
        /\ <<>> \notin Range(judged)
        /\ Md5(<<>>) \notin seen
        /\ pc = "return" => example # <<>>

C10_Witness ==
    /\ pc = "return"
    /\ source # <<>>
    /\ Len(example) > max_size
    /\ example # source
    /\ is_valid_source(world, <<>>)
    /\ error \in Triggered(world, <<>>)

\* C11: on a text of n lines, line_based_shrinking yields first the first
\* i lines joined, for i = 1, 2, ..., n - 1 in this order, before anything
\* else.
C11_PrefixesFirst ==
    (pc \in {"shrink", "exhausted"} /\ Shrinkers[shrinker] = "line_based_shrinking")
        => \A i \in 1..(Len(Split(source)) - 1) :
               Len(yielded) >= i => yielded[i] = Join(SubSeq(Split(source), 1, i))

\* What errors_in_source(t) would leave of the object's state, now.
C12_After(t) == errors_in_source(world, Peppy, t).st

\* C12: a call of errors_in_source on a text whose digest is in the cache
\* runs no checker, archives nothing, and leaves errors_cache and
\* best_examples as they are: so it is for every text classified so far,
\* and for the file investigate_pep8_status classifies when it is one.
C12_HitLeavesState ==
    /\ [](\A t \in DOMAIN answers :
            /\ C12_After(t).errors_cache = errors_cache
            /\ C12_After(t).best_examples = best_examples
            /\ C12_After(t).recycling = recycling
            /\ C12_After(t).invoked = invoked)
    /\ [][(/\ read' # read
           /\ is_valid_source(world, Last(read'))
           /\ Md5(Last(read')) \in DOMAIN errors_cache)
          => /\ errors_cache' = errors_cache
             /\ best_examples' = best_examples
             /\ recycling' = recycling
             /\ invoked' = invoked
             /\ examples' = examples
             /\ Last(read') \in hits']_vars

C12_Witness ==
    /\ Len(read) = 2
    /\ read[2] # read[1]
    /\ read[2] \in hits
    /\ read[2] \in DOMAIN invoked
    /\ invoked[read[2]] = 1
    /\ pc = "loop"
    /\ changed

\* The texts the checker has classified in this run that trigger c.
C13_Triggering(c) == {t \in DOMAIN invoked : c \in errors_cache[Md5(t)]}

\* C13: best_examples has an entry for c exactly when a text classified in
\* this run triggered c; the entry is such a text, and none of them is
\* shorter.  An entry is never removed, it is only replaced by a strictly
\* shorter text, and only in a step in which the checker has run.
C13_BestIsShortestClassified ==
    /\ [](\A c \in Cats :
            /\ c \in DOMAIN best_examples <=> C13_Triggering(c) # {}
            /\ c \in DOMAIN best_examples =>
                  /\ best_examples[c] \in C13_Triggering(c)
                  /\ \A t \in C13_Triggering(c) : Len(best_examples[c]) <= Len(t))
    /\ [][/\ \A c \in DOMAIN best_examples :
                /\ c \in DOMAIN best_examples'
                /\ best_examples'[c] # best_examples[c]
                      => Len(best_examples'[c]) < Len(best_examples[c])
          /\ best_examples' # best_examples => invoked' # invoked]_vars

C13_Witness ==
    \E c \in DOMAIN best_examples :
        /\ best_examples[c] \notin Range(read)
        /\ \E t \in C13_Triggering(c) :
              t # best_examples[c] /\ Len(t) = Len(best_examples[c])

\* C14: when investigate_pep8_status has returned, every category of
\* best_examples has its example file, and the file is no longer than the
\* category's text in best_examples.
C14_FilesNoLongerThanBest ==
    pc = "run" =>
        \A c \in DOMAIN best_examples :
            /\ example_file_for_error(c) \in DOMAIN examples
            /\ Len(examples[example_file_for_error(c)]) <= Len(best_examples[c])

C14_Witness ==
    /\ pc = "run"
    /\ Len(read) = 1
    /\ DOMAIN best_examples = Cats
    /\ \E o \in overwrites : o[1] \notin DOMAIN prior

\* C15: when the classification of a text is over, however it ended, the
\* temporary file made for it is gone.
C15_TempFileRemoved ==
    pc \in {"classified", "AssertionError", "OSError"} => tmpfiles = {}

\* C16: every call of find_minimal_example_from_source returns; and when
\* it returns a text longer than max_size, both shrinkers have run to the
\* end of their candidates and the text is the best one found.
C16_MinimizeTerminates ==
    /\ [](pc = "return" /\ Len(example) > max_size
            => /\ shrinker = Len(Shrinkers)
               /\ ~simplified
               /\ example = current_best)
    /\ (Running ~> pc = "return")

C16_Witness ==
    /\ pc = "return"
    /\ Len(example) > max_size + 1
    /\ example # source
    /\ is_valid_source(world, source)
    /\ error \in Triggered(world, source)
    /\ \A t \in MinSources :
          Len(t) < Len(example) => ~(is_valid_source(world, t) /\ error \in Triggered(world, t))

\* The text t is a non-empty text that compiles and triggers the category
\* being minimized.
C17_Qualifies(t) ==
    IF t = <<>> THEN FALSE
    ELSE is_valid_source(world, t) /\ error \in Triggered(world, t)

\* C17: a text returned above the floor has no candidate of
\* character_based_shrinking (a window of 1 to 10 characters deleted at any
\* index) that is non-empty, compiles and triggers the category.
C17_CharacterLocalMinimum ==
    (pc = "return" /\ Len(example) > max_size) =>
        \A k \in 1..Len(character_based_shrinking(example)) :
            ~C17_Qualifies(character_based_shrinking(example)[k])

C17_Witness ==
    /\ pc = "return"
    /\ Len(example) > max_size
    /\ example # source
    /\ Len(example) >= 2
    /\ \E k \in 1..Len(character_based_shrinking(example)) :
          /\ Md5(character_based_shrinking(example)[k]) \in seen
          /\ is_valid_source(world, character_based_shrinking(example)[k])
          /\ character_based_shrinking(example)[k] # <<>>

C19_LoopTerminates ==
    /\ [][/\ examples' # examples
             => \E c \in Cats :
                   /\ example_file_for_error(c) \in DOMAIN examples'
                   /\ example_file_for_error(c) \in DOMAIN examples
                         => Len(examples'[example_file_for_error(c)])
                               < Len(examples[example_file_for_error(c)])
                   /\ \A d \in Cats \ {c} :
                         example_file_for_error(d) \in DOMAIN examples
                            => /\ example_file_for_error(d) \in DOMAIN examples'
                               /\ examples'[example_file_for_error(d)]
                                     = examples[example_file_for_error(d)]
          /\ (pc = "for" /\ changed' /\ ~changed)
             => \/ example_file_for_error(error') \notin DOMAIN examples
                \/ Len(examples[example_file_for_error(error')]) > Len(source')]_vars
    /\ (InLoop ~> pc = "run")

C19_Witness ==
    /\ pc = "run"
    /\ pending = <<>>
    /\ Cardinality(written) >= 4
    /\ overwrites # {}

\* C20: every text written to the example file of a category compiles and
\* triggers that category, and so does every text investigate_pep8_status
\* hands to find_minimal_example_from_source for that category.
C20_ExamplesTriggerTheirCategory ==
    /\ \A w \in written : Compiles(world, w[2]) /\ w[1] \in Triggered(world, w[2])
    /\ (pc \in {"while", "return"} /\ caller = "investigate_pep8_status")
          => /\ Compiles(world, source)
             /\ error \in Triggered(world, source)
             /\ error \in DOMAIN best_examples

C20_Witness ==
    \E w1, w2 \in written :
        /\ w1[1] # w2[1]
        /\ w1[2] # w2[2]
        /\ w1[2] \notin Range(read)
        /\ w1[1] \notin Triggered(world, w2[2])

===========================================================================
